---------------------------- MODULE Spec2Model ----------------------------
(***************************************************************************)
(* Model of wiki_topic_labels/wiki_topic_labels.py: topic labels suggested *)
(* from ranked Wikipedia search results, summed over bootstraps of the     *)
(* topic's terms, with an optional category boost.                         *)
(*                                                                         *)
(* Scores are the floats 2**(-i) and sums and small integer multiples of   *)
(* them.  They are dyadic rationals far inside the 53-bit mantissa, so     *)
(* float arithmetic on them is exact; the model holds a score s as the     *)
(* integer s * One.                                                        *)
(***************************************************************************)
EXTENDS Integers, Sequences, FiniteSets, TLC

VARIABLES
    wiki_search,   \* the external search: what wikipedia.search answers
    wiki_page,     \* the external page detail: what wikipedia.page answers
    rank_cache,    \* the lru_cache of rank_wiki_labels, least recent first
    cats_cache,    \* the lru_cache of get_wiki_cats, least recent first
    search_calls,  \* query -> number of wikipedia.search invocations
    page_calls,    \* title -> number of wikipedia.page invocations
    call,          \* the last operation: its arguments and what it returned
    returned,      \* every (arguments, result) pair suggest_labels produced
    ncalls         \* operations performed so far

vars == <<wiki_search, wiki_page, rank_cache, cats_cache, search_calls,
          page_calls, call, returned, ncalls>>

---------------------------------------------------------------------------
(* Bounds of the model. *)

\* operations per behaviour
MaxCalls == 2
\* longest result sequence the external search answers in the drawn worlds
MaxResultLen == 3
\* longest topic drawn for bootstrap_topic
MaxTopicLen == 3
\* largest bootstrap size drawn
MaxBootstrap == 4

(* functools.lru_cache() without arguments: maxsize defaults to 128. *)
LruMaxSize == 128

\* the score 1.0; every 2**(-i) with i <= MaxResultLen is a whole multiple
One == 2 ^ (MaxResultLen + 1)

Min(a, b) == IF a <= b THEN a ELSE b

\* TRUE, and evaluating it evaluates v.  A long loop is unrolled by halves:
\* the turns lo..hi are the first half, then the second half on the first
\* one's result, which is evaluated before the second half starts.  That
\* keeps the evaluation of a loop of some 200 turns shallow.
Evaluated(v) == v = v

---------------------------------------------------------------------------
(* Counter and dict: a mapping that keeps insertion order, as a sequence   *)
(* of [label, score] items with pairwise distinct labels.                  *)

Keys(c) == {c[i].label : i \in DOMAIN c}

IndexOf(c, k) == CHOOSE i \in DOMAIN c : c[i].label = k

\* Counter.__getitem__ with Counter.__missing__: 0 for an absent key
Get(c, k) == IF k \in Keys(c) THEN c[IndexOf(c, k)].score ELSE 0

\* dict.__setitem__: an existing key keeps its place, a new one goes last
SetItem(c, k, v) ==
    IF k \in Keys(c)
    THEN [c EXCEPT ![IndexOf(c, k)] = [label |-> k, score |-> v]]
    ELSE Append(c, [label |-> k, score |-> v])

\* Counter._keep_positive
KeepPositive(c) == SelectSeq(c, LAMBDA e : e.score > 0)

RECURSIVE IAddFrom(_, _, _)
IAddFrom(self, other, i) ==
    IF i > Len(other) THEN self
    ELSE IAddFrom(SetItem(self, other[i].label,
                          Get(self, other[i].label) + other[i].score),
                  other, i + 1)

\* the ranking taken over instead of added: counts.update(dict(ranked))
RECURSIVE IAddOverwriteFrom(_, _, _)
IAddOverwriteFrom(self, other, i) ==
    IF i > Len(other) THEN self
    ELSE IAddOverwriteFrom(SetItem(self, other[i].label, other[i].score),
                           other, i + 1)

IAddOverwrite(self, other) == IAddOverwriteFrom(self, other, 1)

\* Counter.__iadd__: self[elem] += count for each item, then _keep_positive
IAdd(self, other) == KeepPositive(IAddFrom(self, other, 1))

\* where the stable descending sort puts e: behind every item scoring >= e
InsertDesc(sorted, e) ==
    LET p == Cardinality({k \in DOMAIN sorted : sorted[k].score >= e.score})
    IN  SubSeq(sorted, 1, p) \o <<e>> \o SubSeq(sorted, p + 1, Len(sorted))

\* the items lo..hi of c put into sorted, in order
RECURSIVE SortDescRange(_, _, _, _)
SortDescRange(c, lo, hi, sorted) ==
    IF lo > hi \/ ~Evaluated(sorted) THEN sorted
    ELSE IF lo = hi THEN InsertDesc(sorted, c[lo])
    ELSE SortDescRange(c, (lo + hi) \div 2 + 1, hi,
                       SortDescRange(c, lo, (lo + hi) \div 2, sorted))

SortDesc(c) == SortDescRange(c, 1, Len(c), <<>>)

\* most_common sorting ascending and then reversing: equal scores come
\* out in reverse insertion order
most_common_reversed(c, n) ==
    LET sorted == SortDesc([i \in DOMAIN c |-> c[Len(c) + 1 - i]])
    IN  IF n = <<>> THEN sorted
        ELSE SubSeq(sorted, 1, Min(n[1], Len(sorted)))

\* Counter.most_common(n): sorted(items, key=score, reverse=True), stable,
\* cut to n items unless n is None.  n is <<>> for None and <<k>> for k.
most_common(c, n) ==
    LET sorted == SortDesc(c)
    IN  IF n = <<>> THEN sorted
        ELSE SubSeq(sorted, 1, Min(n[1], Len(sorted)))

Labels(c) == [i \in DOMAIN c |-> c[i].label]

---------------------------------------------------------------------------
(* functools.lru_cache: a sequence of [key, value] entries, the least      *)
(* recently used first.                                                    *)

LruKeys(cache) == {cache[i].key : i \in DOMAIN cache}

LruIndex(cache, k) == CHOOSE i \in DOMAIN cache : cache[i].key = k

LruValue(cache, k) == cache[LruIndex(cache, k)].value

\* a hit moves the entry to the most recently used end
LruTouch(cache, k) ==
    LET i == LruIndex(cache, k)
    IN  SubSeq(cache, 1, i - 1) \o SubSeq(cache, i + 1, Len(cache))
            \o <<cache[i]>>

\* a miss stores the result, evicting the least recently used entry of a
\* full cache
LruPut(cache, k, v) ==
    IF Len(cache) >= LruMaxSize
    THEN Append(Tail(cache), [key |-> k, value |-> v])
    ELSE Append(cache, [key |-> k, value |-> v])

---------------------------------------------------------------------------
(* The external collaborator, the wikipedia package.  Its answers are      *)
(* fixed for the life of the process: a table for the queries and titles   *)
(* of interest and one rule for every other query or title.                *)

\* wikipedia.search(query): the ranked page titles
Search(query) ==
    IF query \in DOMAIN wiki_search.table THEN wiki_search.table[query]
    ELSE IF wiki_search.echo THEN <<query>>
    ELSE <<>>

\* wikipedia.page(title=title): [kind |-> "ok", cats |-> its categories],
\* or kind names the exception raised
Page(title) ==
    IF title \in DOMAIN wiki_page.table THEN wiki_page.table[title]
    ELSE wiki_page.other

\* the exception classes of the wikipedia package; each derives from
\* WikipediaException
WikipediaExceptions ==
    {"WikipediaException", "PageError", "DisambiguationError",
     "RedirectError", "HTTPTimeoutError"}

---------------------------------------------------------------------------
(* rank_wiki_labels *)

\* the rank counted from 1: 2**(-(i + 1))
RankScoreFromOne(i) == One \div (2 ^ (i + 1))

\* 2**(-i)
RankScore(i) == One \div (2 ^ i)

\* {result: 2**(-i) for i, result in enumerate(results)}: a title met again
\* keeps its place in the dict and takes the later score
RECURSIVE DictFromResults(_, _, _)
DictFromResults(results, d, i) ==
    IF i > Len(results) THEN d
    ELSE DictFromResults(results, SetItem(d, results[i], RankScore(i - 1)),
                         i + 1)

\* the function under the decorator
rank_wiki_labels_wrapped(query) == DictFromResults(Search(query), <<>>, 1)

\* rank_wiki_labels without its decorator: every call searches
rank_wiki_labels_undecorated(query, cache) ==
    [value |-> rank_wiki_labels_wrapped(query),
     cache |-> cache,
     searched |-> <<query>>]

\* value: the Counter returned; cache: the cache afterwards; searched: the
\* queries handed to wikipedia.search
rank_wiki_labels(query, cache) ==
    IF query \in LruKeys(cache)
    THEN [value |-> LruValue(cache, query),
          cache |-> LruTouch(cache, query),
          searched |-> <<>>]
    ELSE LET v == rank_wiki_labels_wrapped(query)
         IN  [value |-> v,
              cache |-> LruPut(cache, query, v),
              searched |-> <<query>>]

---------------------------------------------------------------------------
(* get_wiki_cats *)

\* get_wiki_cats catching PageError and DisambiguationError alone
get_wiki_cats_wrapped_narrow(title) ==
    LET a == Page(title)
    IN  IF a.kind = "ok" THEN [exc |-> "", cats |-> a.cats]
        ELSE IF a.kind = "PageError" \/ a.kind = "DisambiguationError"
             THEN [exc |-> "", cats |-> <<>>]
             ELSE [exc |-> a.kind, cats |-> <<>>]

\* the function under the decorator: exc is "" when it returns
get_wiki_cats_wrapped(title) ==
    LET a == Page(title)
    IN  IF a.kind = "ok" THEN [exc |-> "", cats |-> a.cats]
        ELSE IF \/ a.kind = "PageError"
                \/ a.kind = "DisambiguationError"
                \/ a.kind \in WikipediaExceptions
             THEN [exc |-> "", cats |-> <<>>]
             ELSE [exc |-> a.kind, cats |-> <<>>]

\* lru_cache stores what the function returns and nothing when it raises
get_wiki_cats(title, cache) ==
    IF title \in LruKeys(cache)
    THEN [exc |-> "", cats |-> LruValue(cache, title),
          cache |-> LruTouch(cache, title), fetched |-> <<>>]
    ELSE LET r == get_wiki_cats_wrapped(title)
         IN  IF r.exc # ""
             THEN [exc |-> r.exc, cats |-> <<>>, cache |-> cache,
                   fetched |-> <<title>>]
             ELSE [exc |-> "", cats |-> r.cats,
                   cache |-> LruPut(cache, title, r.cats),
                   fetched |-> <<title>>]

---------------------------------------------------------------------------
(* bootstrap_topic *)

\* ' '.join(terms)
RECURSIVE Join(_)
Join(terms) ==
    IF terms = <<>> THEN ""
    ELSE IF Len(terms) = 1 THEN terms[1]
    ELSE terms[1] \o " " \o Join(Tail(terms))

\* itertools.combinations over positions 1..n: the rightmost position of
\* indices that has not reached its last value, 0 when there is none
RECURSIVE Advanceable(_, _, _)
Advanceable(indices, n, i) ==
    IF i = 0 THEN 0
    ELSE IF indices[i] # i + n - Len(indices) THEN i
    ELSE Advanceable(indices, n, i - 1)

\* indices[i] += 1, and every later position follows its predecessor
NextIndices(indices, i) ==
    [j \in DOMAIN indices |->
        IF j < i THEN indices[j] ELSE indices[i] + 1 + (j - i)]

\* the number of r-subsets of n positions: how often the loop yields
RECURSIVE Binomial(_, _)
Binomial(n, r) ==
    IF r = 0 THEN 1
    ELSE IF r > n THEN 0
    ELSE Binomial(n - 1, r - 1) + Binomial(n - 1, r)

\* one turn of the loop: the tuple after the last one yielded
CombinationsStep(yielded, n) ==
    Append(yielded,
           NextIndices(yielded[Len(yielded)],
                       Advanceable(yielded[Len(yielded)], n,
                                   Len(yielded[Len(yielded)]))))

\* the turns lo..hi of the loop
RECURSIVE CombinationsRange(_, _, _, _)
CombinationsRange(n, lo, hi, yielded) ==
    IF lo > hi \/ ~Evaluated(yielded) THEN yielded
    ELSE IF lo = hi THEN CombinationsStep(yielded, n)
    ELSE CombinationsRange(n, (lo + hi) \div 2 + 1, hi,
                           CombinationsRange(n, lo, (lo + hi) \div 2,
                                             yielded))

\* the position tuples itertools.combinations(range(n), r) yields, in
\* order: range(r) first, then one more for every turn of the loop
combinations(n, r) ==
    IF r > n THEN <<>>
    ELSE CombinationsRange(n, 2, Binomial(n, r), <<[i \in 1..r |-> i]>>)

\* bootstrap_topic without the clamp of n_terms to len(topic)
bootstrap_topic_unclamped(topic, contextual_anchors, n_terms) ==
    LET combos == combinations(Len(topic), n_terms)
    IN  [k \in 1..Len(combos) |->
            Join([j \in 1..n_terms |-> topic[combos[k][j]]]
                 \o contextual_anchors)]

\* the queries bootstrap_topic yields, in order
bootstrap_topic(topic, contextual_anchors, n_terms) ==
    LET n == IF n_terms > Len(topic) THEN Len(topic) ELSE n_terms
        combos == combinations(Len(topic), n)
    IN  [k \in 1..Len(combos) |->
            Join([j \in 1..n |-> topic[combos[k][j]]] \o contextual_anchors)]

---------------------------------------------------------------------------
(* bootstrap_labeller *)

\* counts += ranked_labels, for the ranked_labels r
LabellerAdd(acc, r) ==
    [counts |-> IAdd(acc.counts, r.value),
     cache |-> r.cache,
     searched |-> acc.searched \o r.searched]

\* one turn of the loop over the bootstraps
LabellerStep(query, acc) ==
    LabellerAdd(acc, rank_wiki_labels(query, acc.cache))

\* the turns for queries[lo..hi], in order
RECURSIVE LabellerRange(_, _, _, _)
LabellerRange(queries, lo, hi, acc) ==
    IF lo > hi \/ ~Evaluated(acc) THEN acc
    ELSE IF lo = hi THEN LabellerStep(queries[lo], acc)
    ELSE LabellerRange(queries, (lo + hi) \div 2 + 1, hi,
                       LabellerRange(queries, lo, (lo + hi) \div 2, acc))

LabellerOver(queries, cache) ==
    LabellerRange(queries, 1, Len(queries),
                  [counts |-> <<>>, cache |-> cache, searched |-> <<>>])

\* bootstrap_labeller accumulating into the Counter of its first query, the
\* object the cache holds, instead of a fresh Counter()
AliasFirst(queries, acc) ==
    IF queries = <<>> THEN acc
    ELSE [acc EXCEPT !.cache =
             [i \in DOMAIN acc.cache |->
                 IF acc.cache[i].key = queries[1]
                 THEN [key |-> queries[1], value |-> acc.counts]
                 ELSE acc.cache[i]]]

bootstrap_labeller_aliased(topic, contextual_anchors, n_terms, cache) ==
    AliasFirst(bootstrap_topic(topic, contextual_anchors, n_terms),
               LabellerOver(bootstrap_topic(topic, contextual_anchors,
                                            n_terms), cache))

\* counts starts as a fresh Counter(); counts += ranked_labels changes that
\* object alone, never the Counter the cache holds
bootstrap_labeller(topic, contextual_anchors, n_terms, cache) ==
    LabellerOver(bootstrap_topic(topic, contextual_anchors, n_terms), cache)

---------------------------------------------------------------------------
(* enrich_from_categories *)

\* the threshold test as score <= min_score
BelowOrEqual(score, min_score) ==
    score * min_score.den <= min_score.num * One

\* score < min_score, for min_score the fraction num/den
Below(score, min_score) == score * min_score.den < min_score.num * One

\* the default min_score=0.1
DefaultMinScore == [num |-> 1, den |-> 10]

\* the default category_boost=2
DefaultCategoryBoost == 2

\* the inner loop without the test "cat not in counts"
RECURSIVE CumulateCatsAnyCategory(_, _, _, _, _, _)
CumulateCatsAnyCategory(cats, j, term, score, counts, cumulator_terms) ==
    IF j > Len(cats) THEN cumulator_terms
    ELSE IF cats[j] = term
    THEN CumulateCatsAnyCategory(cats, j + 1, term, score, counts,
                                 cumulator_terms)
    ELSE CumulateCatsAnyCategory(cats, j + 1, term, score, counts,
                      SetItem(cumulator_terms, cats[j],
                              Get(cumulator_terms, cats[j]) + score))

\* the inner loop without the test "cat == term"
RECURSIVE CumulateCatsSelfLoop(_, _, _, _, _, _)
CumulateCatsSelfLoop(cats, j, term, score, counts, cumulator_terms) ==
    IF j > Len(cats) THEN cumulator_terms
    ELSE IF cats[j] \notin Keys(counts)
    THEN CumulateCatsSelfLoop(cats, j + 1, term, score, counts,
                              cumulator_terms)
    ELSE CumulateCatsSelfLoop(cats, j + 1, term, score, counts,
                      SetItem(cumulator_terms, cats[j],
                              Get(cumulator_terms, cats[j]) + score))

\* the inner loop over get_wiki_cats(term): cumulator_terms is a
\* defaultdict(float), a missing category starts from 0.0
RECURSIVE CumulateCats(_, _, _, _, _, _)
CumulateCats(cats, j, term, score, counts, cumulator_terms) ==
    IF j > Len(cats) THEN cumulator_terms
    ELSE IF cats[j] = term \/ cats[j] \notin Keys(counts)
    THEN CumulateCats(cats, j + 1, term, score, counts, cumulator_terms)
    ELSE CumulateCats(cats, j + 1, term, score, counts,
                      SetItem(cumulator_terms, cats[j],
                              Get(cumulator_terms, cats[j]) + score))

\* the first loop's turn for term, score once get_wiki_cats answered r
EnrichLooked(counts, term, score, acc, r) ==
    [cumulator_terms |->
         IF r.exc # "" THEN acc.cumulator_terms
         ELSE CumulateCats(r.cats, 1, term, score, counts,
                           acc.cumulator_terms),
     cache |-> r.cache,
     fetched |-> acc.fetched \o r.fetched,
     looked |-> Append(acc.looked, term),
     exc |-> r.exc]

\* one turn of the first loop, over counts.items(); an exception ends it
EnrichStep(counts, i, min_score, acc) ==
    IF acc.exc # "" THEN acc
    ELSE IF Below(counts[i].score, min_score) THEN acc
    ELSE EnrichLooked(counts, counts[i].label, counts[i].score, acc,
                      get_wiki_cats(counts[i].label, acc.cache))

\* the turns lo..hi of the first loop, which leaves counts unchanged
RECURSIVE EnrichScan(_, _, _, _, _)
EnrichScan(counts, lo, hi, min_score, acc) ==
    IF lo > hi \/ ~Evaluated(acc) THEN acc
    ELSE IF lo = hi THEN EnrichStep(counts, lo, min_score, acc)
    ELSE EnrichScan(counts, (lo + hi) \div 2 + 1, hi, min_score,
                    EnrichScan(counts, lo, (lo + hi) \div 2, min_score, acc))

\* the turns lo..hi of the second loop:
\* counts[term] = counts[term] + category_boost*count
RECURSIVE EnrichApply(_, _, _, _, _)
EnrichApply(counts, boosts, lo, hi, category_boost) ==
    IF lo > hi \/ ~Evaluated(counts) THEN counts
    ELSE IF lo = hi
    THEN SetItem(counts, boosts[lo].label,
                 Get(counts, boosts[lo].label)
                     + category_boost * boosts[lo].score)
    ELSE EnrichApply(EnrichApply(counts, boosts, lo, (lo + hi) \div 2,
                                 category_boost),
                     boosts, (lo + hi) \div 2 + 1, hi, category_boost)

\* for term, count in Counter(cumulator_terms).most_common()
EnrichBoosted(counts, boosts, category_boost) ==
    EnrichApply(counts, boosts, 1, Len(boosts), category_boost)

\* counts: the mapping returned (the one passed in, changed in place);
\* looked: the labels get_wiki_cats was called for; fetched: the titles
\* handed to wikipedia.page
EnrichReturn(counts, category_boost, scan) ==
    [counts |-> IF scan.exc # "" THEN counts
                ELSE EnrichBoosted(counts,
                         most_common(scan.cumulator_terms, <<>>),
                         category_boost),
     cache |-> scan.cache,
     fetched |-> scan.fetched,
     looked |-> scan.looked,
     exc |-> scan.exc]

enrich_from_categories(counts, min_score, category_boost, cache) ==
    EnrichReturn(counts, category_boost,
                 EnrichScan(counts, 1, Len(counts), min_score,
                     [cumulator_terms |-> <<>>, cache |-> cache,
                      fetched |-> <<>>, looked |-> <<>>, exc |-> ""]))

---------------------------------------------------------------------------
(* suggest_labels *)

\* labels = [label for label, _ in counts.most_common(topn)]
SuggestReturn(boot, rich, topn) ==
    [exc |-> rich.exc,
     labels |-> IF rich.exc # "" THEN <<>>
                ELSE Labels(most_common(rich.counts, topn)),
     counts |-> rich.counts,
     base |-> boot.counts,
     rank_cache |-> boot.cache,
     cats_cache |-> rich.cache,
     searched |-> boot.searched,
     fetched |-> rich.fetched,
     looked |-> rich.looked]

\* if boost_with_categories: counts = enrich_from_categories(counts)
SuggestBoost(boot, topn, boost_with_categories, ccache) ==
    SuggestReturn(boot,
                  IF boost_with_categories
                  THEN enrich_from_categories(boot.counts, DefaultMinScore,
                                              DefaultCategoryBoost, ccache)
                  ELSE [counts |-> boot.counts, cache |-> ccache,
                        fetched |-> <<>>, looked |-> <<>>, exc |-> ""],
                  topn)

suggest_labels(topic, contextual_anchors, topn, bootstrap_size, boost_with_categories, rcache, ccache) ==
    SuggestBoost(bootstrap_labeller(topic, contextual_anchors,
                                    bootstrap_size, rcache),
                 topn, boost_with_categories, ccache)

---------------------------------------------------------------------------
(* The process: the two caches live as long as it does. *)

\* calls counted per key: f with one more call for each member of keys
Tally(f, keys) ==
    [k \in DOMAIN f \cup {keys[i] : i \in DOMAIN keys} |->
        (IF k \in DOMAIN f THEN f[k] ELSE 0)
            + Cardinality({i \in DOMAIN keys : keys[i] = k})]

NoCall == [op |-> "none", args |-> <<>>, exc |-> "", labels |-> <<>>,
           counts |-> <<>>, base |-> <<>>, queries |-> <<>>,
           searched |-> <<>>, fetched |-> <<>>, looked |-> <<>>]

\* the process after suggest_labels(args) returned r (or raised r.exc)
Returns(args, r) ==
    /\ rank_cache' = r.rank_cache
    /\ cats_cache' = r.cats_cache
    /\ search_calls' = Tally(search_calls, r.searched)
    /\ page_calls' = Tally(page_calls, r.fetched)
    /\ call' = [op |-> "suggest_labels", args |-> args,
                exc |-> r.exc, labels |-> r.labels,
                counts |-> r.counts, base |-> r.base,
                queries |-> bootstrap_topic(args.topic,
                                args.contextual_anchors,
                                args.bootstrap_size),
                searched |-> r.searched, fetched |-> r.fetched,
                looked |-> r.looked]
    /\ returned' = returned \cup
           {[args |-> args, exc |-> r.exc, labels |-> r.labels]}

SuggestLabels(args) ==
    /\ ncalls < MaxCalls
    /\ Returns(args, suggest_labels(args.topic, args.contextual_anchors,
                                    args.topn, args.bootstrap_size,
                                    args.boost_with_categories,
                                    rank_cache, cats_cache))
    /\ ncalls' = ncalls + 1
    /\ UNCHANGED <<wiki_search, wiki_page>>

\* the rankings the drawn search answers are cut from
BaseRankings ==
    {<<>>, <<"X", "Y">>, <<"Y", "X", "Z", "Y">>, <<"X", "Y", "X", "Z">>}

ResultSeqs ==
    {SubSeq(r, 1, Min(Len(r), MaxResultLen)) : r \in BaseRankings}

\* the queries the drawn topics give
Queries == {"a", "b", "a b"}

PageOk(cats) == [kind |-> "ok", cats |-> cats]
PageFails(kind) == [kind |-> kind, cats |-> <<>>]

\* "W" is a category that no search returns
PageTables ==
    [X : {PageOk(<<"Y", "W">>), PageFails("PageError")},
     Y : {PageOk(<<"Y", "X", "Z">>), PageFails("DisambiguationError")},
     Z : {PageFails("HTTPTimeoutError")}]

\* topn: <<>> is None
Topns == {<<>>, <<2>>}

\* a topic of two terms cut into bootstraps of 1 and of 2 terms
TopicSizes ==
    {[topic |-> <<"a", "b">>, bootstrap_size |-> 1],
     [topic |-> <<"a", "b">>, bootstrap_size |-> 2]}

\* a topic that holds one term twice: its two combinations of one term
\* give the same query
RepeatedTermArgs ==
    {[topic |-> <<"a", "a">>, contextual_anchors |-> <<>>, topn |-> <<>>,
      bootstrap_size |-> 1, boost_with_categories |-> FALSE]}

Args ==
    {[topic |-> ts.topic, contextual_anchors |-> <<>>, topn |-> n,
      bootstrap_size |-> ts.bootstrap_size, boost_with_categories |-> b] :
        ts \in TopicSizes, n \in Topns, b \in BOOLEAN}
    \cup RepeatedTermArgs

Init ==
    /\ wiki_search \in [table : [Queries -> ResultSeqs], echo : {FALSE}]
    /\ wiki_page \in [table : PageTables, other : {PageFails("PageError")}]
    /\ rank_cache = <<>>
    /\ cats_cache = <<>>
    /\ search_calls = <<>>
    /\ page_calls = <<>>
    /\ call = NoCall
    /\ returned = {}
    /\ ncalls = 0

Next == \E args \in Args : SuggestLabels(args)

Spec == Init /\ [][Next]_vars

---------------------------------------------------------------------------
(* bootstrap_topic alone: the arguments are drawn, then it is applied. *)

RECURSIVE SeqsUpTo(_, _)
SeqsUpTo(S, n) ==
    IF n = 0 THEN {<<>>}
    ELSE SeqsUpTo(S, n - 1) \cup [1..n -> S]

Terms == {"a", "b", "c"}

BootstrapArgs ==
    [topic : SeqsUpTo(Terms, MaxTopicLen),
     contextual_anchors : {<<>>, <<"x">>, <<"x", "y">>},
     n_terms : 0..MaxBootstrap]

BootstrapTopic ==
    /\ call.op = "args"
    /\ call' = [NoCall EXCEPT
                   !.op = "bootstrap_topic",
                   !.args = call.args,
                   !.queries = bootstrap_topic(call.args.topic,
                                   call.args.contextual_anchors,
                                   call.args.n_terms)]
    /\ ncalls' = ncalls + 1
    /\ UNCHANGED <<wiki_search, wiki_page, rank_cache, cats_cache,
                   search_calls, page_calls, returned>>

InitBootstrap ==
    /\ wiki_search = [table |-> <<>>, echo |-> FALSE]
    /\ wiki_page = [table |-> <<>>, other |-> PageFails("PageError")]
    /\ rank_cache = <<>>
    /\ cats_cache = <<>>
    /\ search_calls = <<>>
    /\ page_calls = <<>>
    /\ call \in [op : {"args"}, args : BootstrapArgs]
    /\ returned = {}
    /\ ncalls = 0

NextBootstrap == BootstrapTopic

SpecBootstrap == InitBootstrap /\ [][NextBootstrap]_vars

---------------------------------------------------------------------------
(* enrich_from_categories alone, in a fresh process: the score mapping,    *)
(* the threshold, the boost and the page answers are drawn, then it is     *)
(* applied.                                                                *)

\* the score mappings drawn: labels in the order X, Y, Z, any of them left
\* out, each present one scoring 1/16, 1/2 or 1
EnrichScores == {One \div 16, One \div 2, One}

EnrichCounts ==
    {SelectSeq([i \in 1..3 |->
                   [label |-> <<"X", "Y", "Z">>[i], score |-> f[i]]],
               LAMBDA e : e.score > 0) :
        f \in [1..3 -> EnrichScores \cup {0}]}

\* 1/2 is a drawn score, 2 is above every drawn score
EnrichMinScores == {DefaultMinScore, [num |-> 1, den |-> 2],
                    [num |-> 2, den |-> 1]}

EnrichBoosts == {1, DefaultCategoryBoost}

EnrichPageAnswers ==
    {PageOk(<<>>), PageOk(<<"Y">>), PageOk(<<"Z", "X">>),
     PageOk(<<"X", "Y", "Z", "W">>), PageFails("PageError")}

EnrichArgs ==
    [counts : EnrichCounts, min_score : EnrichMinScores,
     category_boost : EnrichBoosts]

\* the process after enrich_from_categories returned r
EnrichReturns(r) ==
    /\ cats_cache' = r.cache
    /\ page_calls' = Tally(page_calls, r.fetched)
    /\ call' = [NoCall EXCEPT
                   !.op = "enrich_from_categories",
                   !.args = call.args,
                   !.exc = r.exc,
                   !.counts = r.counts,
                   !.base = call.args.counts,
                   !.fetched = r.fetched,
                   !.looked = r.looked]

EnrichFromCategories ==
    /\ call.op = "args"
    /\ EnrichReturns(enrich_from_categories(call.args.counts,
                         call.args.min_score, call.args.category_boost,
                         cats_cache))
    /\ ncalls' = ncalls + 1
    /\ UNCHANGED <<wiki_search, wiki_page, rank_cache, search_calls,
                   returned>>

InitEnrich ==
    /\ wiki_search = [table |-> <<>>, echo |-> FALSE]
    /\ wiki_page \in [table : [X : EnrichPageAnswers, Y : EnrichPageAnswers,
                               Z : EnrichPageAnswers],
                      other : {PageFails("PageError")}]
    /\ rank_cache = <<>>
    /\ cats_cache = <<>>
    /\ search_calls = <<>>
    /\ page_calls = <<>>
    /\ call \in [op : {"args"}, args : EnrichArgs]
    /\ returned = {}
    /\ ncalls = 0

NextEnrich == EnrichFromCategories

SpecEnrich == InitEnrich /\ [][NextEnrich]_vars

---------------------------------------------------------------------------
(* The caches under load: a topic of 11 terms gives 165 bootstraps of 3,   *)
(* more than one cache holds; every query returns the page of that name.   *)

BigTopic ==
    <<"t1", "t2", "t3", "t4", "t5", "t6", "t7", "t8", "t9", "t10", "t11">>

CacheArgs ==
    [topic : {BigTopic, <<"t1", "t2", "t3">>}, contextual_anchors : {<<>>},
     topn : {<<3>>}, bootstrap_size : {2, 3},
     boost_with_categories : BOOLEAN]

CacheKeys == {"t1 t2 t3", "t1 t2"}

RankWikiLabelsReturns(query, r) ==
    /\ rank_cache' = r.cache
    /\ search_calls' = Tally(search_calls, r.searched)
    /\ call' = [NoCall EXCEPT
                   !.op = "rank_wiki_labels",
                   !.args = query,
                   !.counts = r.value,
                   !.queries = <<query>>,
                   !.searched = r.searched]

RankWikiLabels(query) ==
    /\ ncalls < MaxCalls
    /\ RankWikiLabelsReturns(query, rank_wiki_labels(query, rank_cache))
    /\ ncalls' = ncalls + 1
    /\ UNCHANGED <<wiki_search, wiki_page, cats_cache, page_calls,
                   returned>>

GetWikiCatsReturns(title, r) ==
    /\ cats_cache' = r.cache
    /\ page_calls' = Tally(page_calls, r.fetched)
    /\ call' = [NoCall EXCEPT
                   !.op = "get_wiki_cats",
                   !.args = title,
                   !.exc = r.exc,
                   !.labels = r.cats,
                   !.looked = <<title>>,
                   !.fetched = r.fetched]

GetWikiCats(title) ==
    /\ ncalls < MaxCalls
    /\ GetWikiCatsReturns(title, get_wiki_cats(title, cats_cache))
    /\ ncalls' = ncalls + 1
    /\ UNCHANGED <<wiki_search, wiki_page, rank_cache, search_calls,
                   returned>>

InitCache ==
    /\ wiki_search = [table |-> <<>>, echo |-> TRUE]
    /\ wiki_page \in [table : {<<>>},
                      other : {PageOk(<<"t1 t2">>), PageFails("PageError")}]
    /\ rank_cache = <<>>
    /\ cats_cache = <<>>
    /\ search_calls = <<>>
    /\ page_calls = <<>>
    /\ call = NoCall
    /\ returned = {}
    /\ ncalls = 0

NextCache ==
    \/ \E args \in CacheArgs : SuggestLabels(args)
    \/ \E query \in CacheKeys : RankWikiLabels(query)
    \/ \E title \in CacheKeys : GetWikiCats(title)

SpecCache == InitCache /\ [][NextCache]_vars

---------------------------------------------------------------------------
(* Properties of suggest_labels and of the ranking behind it. *)

Range(seq) == {seq[i] : i \in DOMAIN seq}

RECURSIVE SumOver(_, _)
SumOver(S, f) ==
    IF S = {} THEN 0
    ELSE LET x == CHOOSE x \in S : TRUE
         IN  f[x] + SumOver(S \ {x}, f)

\* the position of the first occurrence of x in seq
FirstPos(seq, x) ==
    CHOOSE i \in DOMAIN seq : seq[i] = x /\ \A j \in 1..(i - 1) : seq[j] # x

RECURSIVE Flatten(_)
Flatten(seqs) ==
    IF seqs = <<>> THEN <<>> ELSE seqs[1] \o Flatten(Tail(seqs))

Suggested == call.op = "suggest_labels"

\* C1: two calls of suggest_labels with the same arguments return the same
\* label list, and every Counter the cache of rank_wiki_labels holds is
\* still the ranking of its query: no call changed it.
C1_Idempotent ==
    /\ \A r1, r2 \in returned : r1.args = r2.args => r1 = r2
    /\ \A i \in DOMAIN rank_cache :
          rank_cache[i].value = rank_wiki_labels_wrapped(rank_cache[i].key)

\* the same boosted call was made twice, and the boost changed the scores
C1_Witness ==
    /\ Suggested
    /\ ncalls = 2
    /\ Cardinality(returned) = 1
    /\ call.args.boost_with_categories
    /\ call.counts # call.base
    /\ Len(call.labels) > 1

\* the position of the last occurrence of x in seq
LastPos(seq, x) ==
    CHOOSE i \in DOMAIN seq :
        seq[i] = x /\ \A j \in (i + 1)..Len(seq) : seq[j] # x

\* C3 as stated: the Counter rank_wiki_labels holds for a query scores the
\* result at 0-indexed position i with 2^(-i), whatever the result
\* sequence; the first result scores 1.0.
C3_RankByPosition ==
    \A e \in Range(rank_cache) :
        \A i \in DOMAIN Search(e.key) :
            Get(e.value, Search(e.key)[i]) * (2 ^ (i - 1)) = One

\* C3 as amended: the Counter holds the titles of the result, each scored
\* 2^(-i) for the 0-indexed position i of its last occurrence, which is its
\* only position in a result of pairwise distinct titles.
C3_RankByLastPosition ==
    \A e \in Range(rank_cache) :
        /\ Keys(e.value) = Range(Search(e.key))
        /\ \A i \in DOMAIN Search(e.key) :
              Get(e.value, Search(e.key)[i])
                  * (2 ^ (LastPos(Search(e.key), Search(e.key)[i]) - 1))
                  = One

\* the cache holds the ranking of a result with a repeated title and the
\* ranking of a result of three distinct titles
C3_Witness ==
    /\ \E e \in Range(rank_cache) :
          Cardinality(Range(Search(e.key))) < Len(Search(e.key))
    /\ \E e \in Range(rank_cache) :
          /\ Cardinality(Range(Search(e.key))) = Len(Search(e.key))
          /\ Len(Search(e.key)) = MaxResultLen

\* what query contributes to label when its result holds label: 2^(-rank),
\* the rank being the position at which the result first holds it
Contribution(query, label) ==
    IF label \in Range(Search(query))
    THEN One \div (2 ^ (FirstPos(Search(query), label) - 1))
    ELSE 0

\* the same with the rank of a repeated title taken at its last occurrence
ContributionLast(query, label) ==
    IF label \in Range(Search(query))
    THEN One \div (2 ^ (LastPos(Search(query), label) - 1))
    ELSE 0

\* the labels some bootstrap query returned
ReturnedLabels ==
    UNION {Range(Search(call.queries[k])) : k \in DOMAIN call.queries}

\* C4 as stated: after bootstrap_labeller a label's score is the sum, over
\* the bootstrap queries whose result holds it (a query counted once per
\* combination giving it), of 2^(-rank in that result), and a label no
\* query returned is absent.
C4_SumOverBootstraps ==
    Suggested =>
        /\ Keys(call.base) = ReturnedLabels
        /\ \A label \in Keys(call.base) :
              Get(call.base, label) =
                  SumOver(DOMAIN call.queries,
                          [k \in DOMAIN call.queries |->
                              Contribution(call.queries[k], label)])

\* C4 as amended: the same sum, the rank of a title that a result holds
\* more than once being the position of its last occurrence there.
C4_SumOverBootstrapsLast ==
    Suggested =>
        /\ Keys(call.base) = ReturnedLabels
        /\ \A label \in Keys(call.base) :
              Get(call.base, label) =
                  SumOver(DOMAIN call.queries,
                          [k \in DOMAIN call.queries |->
                              ContributionLast(call.queries[k], label)])

\* two combinations gave the same query, whose result repeats a title: each
\* label scores twice what the query gives it
C4_Witness ==
    /\ Suggested
    /\ Len(call.queries) = 2
    /\ call.queries[1] = call.queries[2]
    /\ Cardinality(Range(Search(call.queries[1])))
          < Len(Search(call.queries[1]))
    /\ \A label \in Keys(call.base) :
          Get(call.base, label) = 2 * ContributionLast(call.queries[1], label)

\* the boost label gets from the looked-up labels whose page was found
BoostFromFound(label) ==
    SumOver({t \in Range(call.looked) :
                 /\ t # label
                 /\ Page(t).kind = "ok"
                 /\ label \in Range(Page(t).cats)},
            [t \in Range(call.looked) |-> Get(call.base, t)])

\* C8: a page lookup that fails with an exception of the wikipedia package
\* never propagates: suggest_labels returns, get_wiki_cats holds an empty
\* category list for the title, and the title boosts no label.
C8_LookupFailureRecovered ==
    Suggested =>
        /\ call.exc = ""
        /\ \A e \in Range(cats_cache) :
              Page(e.key).kind # "ok" => e.value = <<>>
        /\ \A label \in Keys(call.counts) :
              Get(call.counts, label) =
                  Get(call.base, label)
                      + DefaultCategoryBoost * BoostFromFound(label)

\* one boosted call met all three failures and still returned labels
C8_Witness ==
    /\ Suggested
    /\ call.args.boost_with_categories
    /\ {Page(t).kind : t \in Range(call.looked)} =
           {"PageError", "DisambiguationError", "HTTPTimeoutError"}
    /\ call.labels # <<>>

\* label a goes before label b: a higher final score, or the same score
\* and inserted first (bootstrap order, then rank within the query)
GoesBefore(a, b) ==
    LET flat == Flatten([k \in DOMAIN call.queries |->
                            Search(call.queries[k])])
    IN  \/ Get(call.counts, a) > Get(call.counts, b)
        \/ /\ Get(call.counts, a) = Get(call.counts, b)
           /\ FirstPos(flat, a) < FirstPos(flat, b)

\* C9: suggest_labels returns the labels by descending final score, equal
\* scores in first-insertion order, all of them for topn None and the
\* first min(topn, number of labels) otherwise.
C9_DescendingStable ==
    (Suggested /\ call.exc = "") =>
        /\ Range(call.labels) \subseteq Keys(call.counts)
        /\ Len(call.labels) =
              IF call.args.topn = <<>> THEN Len(call.counts)
              ELSE Min(call.args.topn[1], Len(call.counts))
        /\ \A i, j \in DOMAIN call.labels :
              i < j => GoesBefore(call.labels[i], call.labels[j])
        /\ \A a \in Range(call.labels) :
              \A b \in Keys(call.counts) \ Range(call.labels) :
                  GoesBefore(a, b)

\* a boosted call whose boost changed scores, cut by topn, with two
\* returned labels of equal final score
C9_Witness ==
    /\ Suggested
    /\ call.args.boost_with_categories
    /\ call.counts # call.base
    /\ Len(call.labels) < Len(call.counts)
    /\ \E i, j \in DOMAIN call.labels :
          /\ i < j
          /\ Get(call.counts, call.labels[i]) = Get(call.counts, call.labels[j])

---------------------------------------------------------------------------
(* Properties of bootstrap_topic. *)

\* the strictly increasing m-tuples of positions 1..n
Increasing(m, n) ==
    {c \in [1..m -> 1..n] : \A i, j \in 1..m : i < j => c[i] < c[j]}

\* c comes before d in lexicographic order
LexBefore(c, d) ==
    \E i \in DOMAIN c :
        /\ c[i] < d[i]
        /\ \A j \in 1..(i - 1) : c[j] = d[j]

\* terms separated by single spaces, built from the left
RECURSIVE SpaceSeparated(_, _, _)
SpaceSeparated(terms, i, text) ==
    IF i > Len(terms) THEN text
    ELSE SpaceSeparated(terms, i + 1,
                        IF i = 1 THEN terms[1] ELSE text \o " " \o terms[i])

\* the query of the combination c: its terms, then the anchors
QueryOf(topic, anchors, c) ==
    SpaceSeparated([j \in DOMAIN c |-> topic[c[j]]] \o anchors, 1, "")

Bootstrapped == call.op = "bootstrap_topic"

\* C5: bootstrap_topic(topic, anchors, n) yields, in lexicographic order of
\* positions, one query for each combination of min(n, len(topic)) terms:
\* the terms in their order in topic, then the anchors, space-separated.
\* A size above len(topic) yields what size len(topic) yields.
C5_BootstrapQueries ==
    Bootstrapped =>
        LET topic == call.args.topic
            anchors == call.args.contextual_anchors
            m == Min(call.args.n_terms, Len(topic))
            combos == Increasing(m, Len(topic))
        IN  /\ Len(call.queries) = Cardinality(combos)
            /\ \A c \in combos :
                  call.queries[1 + Cardinality({d \in combos :
                                                   LexBefore(d, c)})]
                      = QueryOf(topic, anchors, c)
            /\ call.args.n_terms > Len(topic) =>
                  call.queries = bootstrap_topic(topic, anchors, Len(topic))
            /\ (topic = <<"a", "b">> /\ anchors = <<>>
                    /\ call.args.n_terms = 3) =>
                  call.queries = <<"a b">>
            /\ (topic = <<"a", "b", "c">> /\ anchors = <<>>
                    /\ call.args.n_terms = 2) =>
                  call.queries = <<"a b", "a c", "b c">>

\* a size above the length of a topic of three terms, one of them twice,
\* with anchors
C5_Witness ==
    /\ Bootstrapped
    /\ call.args.topic = <<"a", "b", "a">>
    /\ call.args.contextual_anchors = <<"x", "y">>
    /\ call.args.n_terms > 3
    /\ call.queries = <<"a b a x y">>

---------------------------------------------------------------------------
(* Properties of enrich_from_categories. *)

Enriched == call.op = "enrich_from_categories"

\* score >= min_score, for min_score the fraction num/den
AtLeast(score, min_score) == score * min_score.den >= min_score.num * One

\* the categories of a title: none when its page lookup fails
CategoriesOf(title) ==
    IF Page(title).kind = "ok" THEN Range(Page(title).cats) ELSE {}

\* C6: enrich_from_categories introduces no label: the keys of the mapping
\* it returns are the keys of the mapping it was given.
C6_NoNewKeys ==
    Enriched => Keys(call.counts) = Keys(call.base)

\* a looked-up label had a category that is no label, and scores changed
C6_Witness ==
    /\ Enriched
    /\ call.counts # call.base
    /\ \E t \in Range(call.looked) :
          CategoriesOf(t) \ Keys(call.base) # {}

\* C7: get_wiki_cats is called for exactly the labels scoring at least
\* min_score, a score equal to min_score included; when every score is
\* below min_score nothing is looked up and the mapping is unchanged.
C7_ThresholdLookups ==
    Enriched =>
        /\ Range(call.looked) =
              {l \in Keys(call.base) :
                  AtLeast(Get(call.base, l), call.args.min_score)}
        /\ Range(call.fetched) \subseteq Range(call.looked)
        /\ (\A l \in Keys(call.base) :
               ~AtLeast(Get(call.base, l), call.args.min_score))
              => /\ call.looked = <<>>
                 /\ call.fetched = <<>>
                 /\ cats_cache = <<>>
                 /\ call.counts = call.base

\* a label scoring exactly min_score was looked up and boosted another,
\* a label scoring less was not looked up
C7_Witness ==
    /\ Enriched
    /\ call.counts # call.base
    /\ \E l \in Range(call.looked) :
          Get(call.base, l) * call.args.min_score.den
              = call.args.min_score.num * One
    /\ \E l \in Keys(call.base) : l \notin Range(call.looked)

\* every label scores below min_score: nothing happens
NoOpReached ==
    /\ Enriched
    /\ call.base # <<>>
    /\ call.looked = <<>>

\* the labels that boost label: the others scoring at least min_score on
\* entry that have it as a category
Boosters(label) ==
    {l \in Keys(call.base) \ {label} :
        /\ AtLeast(Get(call.base, l), call.args.min_score)
        /\ label \in CategoriesOf(l)}

BoosterSum(label) ==
    SumOver(Boosters(label), [l \in Keys(call.base) |-> Get(call.base, l)])

\* C10: after enrich_from_categories every label scores what it scored on
\* entry plus category_boost times the entry scores of the other labels
\* that reach min_score and have it as a category.
C10_BoostFromEntryScores ==
    Enriched =>
        \A label \in Keys(call.base) :
            Get(call.counts, label) =
                Get(call.base, label)
                    + call.args.category_boost * BoosterSum(label)

\* a label boosted by two others, one of which is boosted itself and lists
\* itself among its categories, beside a label that keeps its score
C10_Witness ==
    /\ Enriched
    /\ \E label \in Keys(call.base) :
          /\ Cardinality(Boosters(label)) = 2
          /\ \E l \in Boosters(label) :
                /\ Boosters(l) # {}
                /\ l \in CategoriesOf(l)
    /\ \E label \in Keys(call.base) :
          /\ Boosters(label) = {}
          /\ Get(call.counts, label) = Get(call.base, label)

---------------------------------------------------------------------------
(* Properties of the caches. *)

===========================================================================
